---------------------------- MODULE Spec2Model ----------------------------
(***************************************************************************)
(* Model of the two poster tools of the repository:                        *)
(*   make_poster.js            static server + browser + one job per scheme *)
(*   scripts/render_poster.js  browser + one job against a given URL        *)
(* Spec / FairSpec run one process of either tool from its start to its     *)
(* exit.  SpecServe runs the request handler of make_poster.js's static     *)
(* server against a small file tree.                                        *)
(***************************************************************************)
EXTENDS Integers, Sequences, FiniteSets, TLC

VARIABLES
  tool,          \* which program this process runs
  args,          \* make_poster.js: the command-line flags (NULL = flag absent)
  pc,            \* position of the main async function
  probe,         \* getFreePort: the port the current probe tries (its `start`)
  port,          \* make_poster.js: the value of `port` (0 = not yet set)
  others,        \* ports bound by other listeners of the machine
  server,        \* static server: "none" | "listening" | "closed"
  serverCloses,  \* number of server.close() calls
  browser,       \* "none" | "launched" | "closing" | "closed" | "closeFailed"
  browserCloses, \* number of browser.close() calls that resolved
  openPages,     \* pages of the browser that are open
  pagesOpened,   \* number of browser.newPage() calls that resolved
  jobIdx,        \* index of the current job in Jobs (0 = no job started)
  jobLog,        \* page operations the current job has invoked, in order
  statusText,    \* text of the page's #status element
  elapsed,       \* ms the current waitForFunction has been pending
  warnings,      \* number of console.warn lines
  exports,       \* page.pdf calls that resolved: <<[scheme, path], ...>>
  files,         \* output paths page.pdf has written to (fully or partly)
  pending,       \* TRUE while a rejection propagates to the .catch handler
  failedJob,     \* index of the job whose generatePoster rejected (0 = none)
  stderr,        \* lines written by console.error
  exitCode,      \* -1 while running, then the process exit code
  crashed,       \* TRUE when the process died of an uncaught exception
  fs,            \* SpecServe: regular files under rootDir
  reqPath,       \* SpecServe: reqUrl.pathname of the request being handled
  stage,         \* SpecServe: "idle" | "stat" | "answered" | "threw"
  resp           \* SpecServe: the response written

toolVars  == <<tool, args, pc, probe, port, others, server, serverCloses,
               browser, browserCloses, openPages, pagesOpened, jobIdx, jobLog,
               statusText, elapsed, warnings, exports, files, pending,
               failedJob, stderr, exitCode, crashed>>
serveVars == <<fs, reqPath, stage, resp>>
vars      == <<toolVars, serveVars>>

NULL == "null"

-----------------------------------------------------------------------------
(* Bounds of the model *)

\* other listeners bind at most this many ports; the model has one port more
MaxOthers == 2
\* ms of waiting that one Tick stands for
TickMs == 90000
\* longest reqUrl.pathname a request carries, in tokens
MaxPathLen == 4

-----------------------------------------------------------------------------
(* make_poster.js: configuration *)

ALL_SCHEMES == <<"mta", "ocean", "sunset", "earth">>

ProbeBase == 5173

Ports == ProbeBase .. (ProbeBase + MaxOthers)

\* the command lines the model runs
SchemeArgs == {NULL, "all", "ocean"}
OutArgs    == {NULL, "custom.pdf", "poster_a3_mta.pdf"}
PortArgs   == {NULL, "5174"}

getArg(name, def) == IF args[name] # NULL THEN args[name] ELSE def

scheme     == getArg("scheme", "all")
outFile    == getArg("out", "poster_a3.pdf")
forcedPort == getArg("port", NULL)

\* parseInt(s, 10) of a decimal numeral
parseInt(s) == CHOOSE n \in Ports : ToString(n) = s

\* `poster_a3_${colorScheme}.pdf`
OutputFileMutant(colorScheme) == outFile
OutputFile(colorScheme) == "poster_a3_" \o colorScheme \o ".pdf"

\* scripts/render_poster.js: process.env.OUTPUT || "poster_a3.pdf"
OUTFILE == "poster_a3.pdf"

\* the (scheme, output file) pairs the run works through
Jobs ==
  IF tool = "render_poster" THEN << [scheme |-> NULL, path |-> OUTFILE] >>
  ELSE IF scheme = "all"
       THEN [i \in 1..Len(ALL_SCHEMES) |->
               [scheme |-> ALL_SCHEMES[i], path |-> OutputFile(ALL_SCHEMES[i])]]
       ELSE << [scheme |-> scheme, path |-> outFile] >>

-----------------------------------------------------------------------------
(* The page operations of one job, in program order *)

MakeStepsMutant ==
  <<"setViewport", "goto", "evaluate", "waitForFunction", "addStyleTag", "pdf">>
MakeSteps ==
  <<"setViewport", "goto", "addStyleTag", "evaluate", "waitForFunction", "pdf">>

RenderSteps ==
  <<"setViewport", "goto", "evaluate", "waitForFunction", "addStyleTag", "pdf">>

JobSteps == IF tool = "make_poster" THEN MakeSteps ELSE RenderSteps

IndexOf(seq, x) == CHOOSE i \in 1..Len(seq) : seq[i] = x

\* where control goes when page operation s resolves
AfterOk(s) ==
  LET i == IndexOf(JobSteps, s) IN
  IF i < Len(JobSteps) THEN JobSteps[i + 1]
  ELSE IF tool = "make_poster" THEN "pageClose" ELSE "browserClose"

\* where control goes when page operation s rejects: generatePoster's finally
\* block, or straight to the .catch handler of render_poster.js
AfterFailMutant(s) == IF tool = "make_poster" THEN "browserClose" ELSE "catch"
AfterFail(s) == IF tool = "make_poster" THEN "pageClose" ELSE "catch"

\* where main goes when generatePoster settles: the next scheme of the loop,
\* or the finally block
AfterJobMutant(failed) ==
  IF jobIdx < Len(Jobs) THEN "newPage" ELSE "browserClose"
AfterJob(failed) ==
  IF ~failed /\ jobIdx < Len(Jobs) THEN "newPage" ELSE "browserClose"

\* waitForFunction's timeout option in ms; 0 disables the timeout
MakeWaitTimeout == 0
RenderWaitTimeoutMutant == 0 * 60 * 1000
RenderWaitTimeout == 3 * 60 * 1000
WaitTimeout == IF tool = "make_poster" THEN MakeWaitTimeout ELSE RenderWaitTimeout

\* texts the page's status element takes
StatusTexts == {"Rendering", "done.", "Done."}

\* /^Done\./.test(el.textContent) and /Done\./i.test(txt), on StatusTexts
MakeDone(txt)   == txt = "Done."
RenderDone(txt) == txt \in {"done.", "Done."}
StatusDone == IF tool = "make_poster" THEN MakeDone(statusText)
              ELSE RenderDone(statusText)


-----------------------------------------------------------------------------
(* Initial state of a process of either tool *)

ServeIdle ==
  /\ fs = {}
  /\ reqPath = <<>>
  /\ stage = "idle"
  /\ resp = [status |-> 0, type |-> NULL, text |-> NULL, file |-> <<>>]

ProcessStart ==
  /\ pc = "start"
  /\ probe = 0
  /\ port = 0
  /\ others = {}
  /\ server = "none"
  /\ serverCloses = 0
  /\ browser = "none"
  /\ browserCloses = 0
  /\ openPages = 0
  /\ pagesOpened = 0
  /\ jobIdx = 0
  /\ jobLog = <<>>
  /\ statusText = NULL
  /\ elapsed = 0
  /\ warnings = 0
  /\ exports = <<>>
  /\ files = {}
  /\ pending = FALSE
  /\ failedJob = 0
  /\ stderr = <<>>
  /\ exitCode = -1
  /\ crashed = FALSE

NoArgs == [scheme |-> NULL, out |-> NULL, port |-> NULL]

Init ==
  /\ tool \in {"make_poster", "render_poster"}
  /\ args \in [scheme : SchemeArgs, out : OutArgs, port : PortArgs]
  /\ tool = "render_poster" => args = NoArgs
  /\ ProcessStart
  /\ ServeIdle

-----------------------------------------------------------------------------
(* Start-up: port selection, server, browser *)

jobVars == <<openPages, pagesOpened, jobIdx, jobLog, statusText, elapsed,
             warnings, exports, files, failedJob>>
endVars == <<stderr, exitCode, crashed>>

\* make_poster.js line 152 up to the first await; render_poster.js lines 11-26
Start ==
  /\ pc = "start"
  /\ IF tool = "render_poster"
     THEN pc' = "launch" /\ UNCHANGED <<probe, port>>
     ELSE IF forcedPort # NULL
          THEN pc' = "listen" /\ port' = parseInt(forcedPort) /\ UNCHANGED probe
          ELSE pc' = "getFreePort" /\ probe' = ProbeBase /\ UNCHANGED port
  /\ UNCHANGED <<tool, args, others, server, serverCloses, browser,
                 browserCloses, pending, jobVars, endVars, serveVars>>

\* one probe of getFreePort: listen on `start`; on "error" recurse with
\* start + 1, otherwise close the probe server and resolve with its port
GetFreePort ==
  /\ pc = "getFreePort"
  /\ IF probe \in others
     THEN probe' = probe + 1 /\ UNCHANGED <<pc, port>>
     ELSE port' = probe /\ pc' = "listen" /\ UNCHANGED probe
  /\ UNCHANGED <<tool, args, others, server, serverCloses, browser,
                 browserCloses, pending, jobVars, endVars, serveVars>>

\* another process of the machine binds a port; ports matter to the program
\* only until its own server listens
OtherBinds(p) ==
  /\ tool = "make_poster"
  /\ pc \in {"start", "getFreePort", "listen"}
  /\ p \notin others
  /\ Cardinality(others) < MaxOthers
  /\ others' = others \cup {p}
  /\ UNCHANGED <<tool, args, pc, probe, port, server, serverCloses, browser,
                 browserCloses, pending, jobVars, endVars, serveVars>>

\* await new Promise(r => server.listen(port, r)): the server has no "error"
\* listener, so EADDRINUSE is an uncaught exception that ends the process
ServerListen ==
  /\ pc = "listen"
  /\ IF port \in others
     THEN /\ crashed' = TRUE
          /\ exitCode' = 1
          /\ pc' = "exited"
          /\ UNCHANGED server
     ELSE /\ server' = "listening"
          /\ pc' = "launch"
          /\ UNCHANGED <<crashed, exitCode>>
  /\ UNCHANGED <<tool, args, probe, port, others, serverCloses, browser,
                 browserCloses, pending, jobVars, stderr, serveVars>>

\* await puppeteer.launch(...)
Launch ==
  /\ pc = "launch"
  /\ \E ok \in BOOLEAN :
       IF ok THEN browser' = "launched" /\ pc' = "newPage" /\ UNCHANGED pending
       ELSE pending' = TRUE /\ pc' = "catch" /\ UNCHANGED browser
  /\ UNCHANGED <<tool, args, probe, port, others, server, serverCloses,
                 browserCloses, jobVars, endVars, serveVars>>

-----------------------------------------------------------------------------
(* One job: generatePoster, or the body of render_poster.js *)

progVars == <<tool, args, probe, port, others, server, serverCloses, browser,
              browserCloses>>

\* await browser.newPage(); in make_poster.js this is the next iteration of
\* the scheme loop calling generatePoster, whose newPage is outside its try
NewPage ==
  /\ pc = "newPage"
  /\ jobIdx' = jobIdx + 1
  /\ elapsed' = 0
  /\ \E ok \in BOOLEAN :
       IF ok
       THEN /\ openPages' = openPages + 1
            /\ pagesOpened' = pagesOpened + 1
            /\ jobLog' = <<"newPage">>
            /\ statusText' = NULL
            /\ pc' = JobSteps[1]
            /\ UNCHANGED <<pending, failedJob>>
       ELSE /\ pending' = TRUE
            /\ failedJob' = jobIdx + 1
            /\ pc' = IF tool = "make_poster" THEN "browserClose" ELSE "catch"
            /\ UNCHANGED <<openPages, pagesOpened, jobLog, statusText>>
  /\ UNCHANGED <<progVars, warnings, exports, files, endVars, serveVars>>

\* a page operation that is awaited and either resolves or rejects
PageOp(s) ==
  /\ pc = s
  /\ jobLog' = Append(jobLog, s)
  /\ \E ok \in BOOLEAN :
       IF ok THEN pc' = AfterOk(s) /\ UNCHANGED <<pending, failedJob>>
       ELSE pc' = AfterFail(s) /\ pending' = TRUE /\ failedJob' = jobIdx

SetViewport ==
  /\ PageOp("setViewport")
  /\ UNCHANGED <<progVars, openPages, pagesOpened, jobIdx, statusText, elapsed,
                 warnings, exports, files, endVars, serveVars>>

\* page.goto(url, { waitUntil: "networkidle0" }): the page loads and starts
\* to render
Goto ==
  /\ PageOp("goto")
  /\ statusText' = IF pc' = AfterOk("goto") THEN "Rendering" ELSE statusText
  /\ UNCHANGED <<progVars, openPages, pagesOpened, jobIdx, elapsed,
                 warnings, exports, files, endVars, serveVars>>

AddStyleTag ==
  /\ PageOp("addStyleTag")
  /\ UNCHANGED <<progVars, openPages, pagesOpened, jobIdx, statusText, elapsed,
                 warnings, exports, files, endVars, serveVars>>

Evaluate ==
  /\ PageOp("evaluate")
  /\ UNCHANGED <<progVars, openPages, pagesOpened, jobIdx, statusText, elapsed,
                 warnings, exports, files, endVars, serveVars>>

\* the page's own script rewrites its status element while the page is loaded
StatusChanges(txt) ==
  /\ pc \in {"addStyleTag", "evaluate", "waitForFunction", "waiting", "pdf"}
  /\ statusText # NULL
  /\ txt # statusText
  /\ statusText' = txt
  /\ UNCHANGED <<progVars, pc, pending, openPages, pagesOpened, jobIdx, jobLog,
                 elapsed, warnings, exports, files, failedJob, endVars,
                 serveVars>>

\* page.waitForFunction(..., { timeout }) is called
WaitStart ==
  /\ pc = "waitForFunction"
  /\ jobLog' = Append(jobLog, "waitForFunction")
  /\ elapsed' = 0
  /\ pc' = "waiting"
  /\ UNCHANGED <<progVars, pending, openPages, pagesOpened, jobIdx, statusText,
                 warnings, exports, files, failedJob, endVars, serveVars>>

\* time passes while the wait is pending; a timeout of 0 arms no timer
Tick ==
  /\ pc = "waiting"
  /\ WaitTimeout > 0
  /\ elapsed < WaitTimeout
  /\ elapsed' = elapsed + TickMs
  /\ UNCHANGED <<progVars, pc, pending, openPages, pagesOpened, jobIdx, jobLog,
                 statusText, warnings, exports, files, failedJob, endVars,
                 serveVars>>

\* the polled predicate holds: waitForFunction resolves
WaitMatches ==
  /\ pc = "waiting"
  /\ StatusDone
  /\ jobLog' = Append(jobLog, "waitEnded")
  /\ pc' = AfterOk("waitForFunction")
  /\ UNCHANGED <<progVars, pending, openPages, pagesOpened, jobIdx, statusText,
                 elapsed, warnings, exports, files, failedJob, endVars,
                 serveVars>>

\* render_poster.js wraps the wait in try/catch and only warns
WaitCaught == tool = "render_poster"

\* waitForFunction rejects
WaitFails ==
  /\ jobLog' = Append(jobLog, "waitEnded")
  /\ IF WaitCaught
     THEN /\ warnings' = warnings + 1
          /\ pc' = AfterOk("waitForFunction")
          /\ UNCHANGED <<pending, failedJob>>
     ELSE /\ pc' = AfterFail("waitForFunction")
          /\ pending' = TRUE
          /\ failedJob' = jobIdx
          /\ UNCHANGED warnings
  /\ UNCHANGED <<progVars, openPages, pagesOpened, jobIdx, statusText,
                 elapsed, exports, files, endVars, serveVars>>

\* ... with a TimeoutError, once the timeout has elapsed
WaitTimesOut ==
  /\ pc = "waiting"
  /\ WaitTimeout > 0
  /\ elapsed >= WaitTimeout
  /\ WaitFails

\* ... for another reason (the page crashed, the connection dropped)
WaitRejects ==
  /\ pc = "waiting"
  /\ WaitFails

\* await page.pdf({ path, ... }): a rejected export may have begun to write
Pdf ==
  /\ pc = "pdf"
  /\ jobLog' = Append(jobLog, "pdf")
  /\ \E ok \in BOOLEAN :
       IF ok
       THEN /\ exports' = Append(exports, Jobs[jobIdx])
            /\ files' = files \cup {Jobs[jobIdx].path}
            /\ pc' = AfterOk("pdf")
            /\ UNCHANGED <<pending, failedJob>>
       ELSE /\ files' \in {files, files \cup {Jobs[jobIdx].path}}
            /\ pc' = AfterFail("pdf")
            /\ pending' = TRUE
            /\ failedJob' = jobIdx
            /\ UNCHANGED exports
  /\ UNCHANGED <<progVars, openPages, pagesOpened, jobIdx, statusText, elapsed,
                 warnings, endVars, serveVars>>

\* generatePoster's finally { await page.close() }, then generatePoster
\* settles and main's loop goes on or main's finally block starts.  When the
\* close rejects, the page may or may not be gone.
PageClose ==
  /\ pc = "pageClose"
  /\ \E ok \in BOOLEAN :
       LET failed == pending \/ ~ok IN
       /\ jobLog' = Append(jobLog, IF ok THEN "pageClose" ELSE "pageCloseRejected")
       /\ IF ok THEN openPages' = openPages - 1
          ELSE openPages' \in {openPages - 1, openPages}
       /\ pending' = failed
       /\ failedJob' = IF failed THEN jobIdx ELSE failedJob
       /\ pc' = AfterJob(failed)
  /\ UNCHANGED <<progVars, pagesOpened, jobIdx, statusText, elapsed, warnings,
                 exports, files, endVars, serveVars>>

-----------------------------------------------------------------------------
(* Tear-down and exit *)

\* browser.close() is called
BrowserCloseBegin ==
  /\ pc = "browserClose"
  /\ browser' = "closing"
  /\ pc' = "browserClosing"
  /\ UNCHANGED <<tool, args, probe, port, others, server, serverCloses,
                 browserCloses, pending, jobVars, endVars, serveVars>>

\* server.close() is the statement after `await browser.close()` in main's
\* finally block of make_poster.js
ServerCloseRunsMutant(ok) == tool = "make_poster"
ServerCloseRuns(ok) == tool = "make_poster" /\ ok

\* browser.close() settles; closing the browser closes its pages
BrowserCloseSettles ==
  /\ pc = "browserClosing"
  /\ \E ok \in BOOLEAN :
       /\ IF ok
          THEN /\ browser' = "closed"
               /\ browserCloses' = browserCloses + 1
               /\ openPages' = 0
               /\ pc' = IF pending THEN "catch" ELSE "returned"
               /\ UNCHANGED pending
          ELSE /\ browser' = "closeFailed"
               /\ pending' = TRUE
               /\ pc' = "catch"
               /\ UNCHANGED <<browserCloses, openPages>>
       /\ IF ServerCloseRuns(ok)
          THEN server' = "closed" /\ serverCloses' = serverCloses + 1
          ELSE UNCHANGED <<server, serverCloses>>
  /\ UNCHANGED <<tool, args, probe, port, others, pagesOpened, jobIdx, jobLog,
                 statusText, elapsed, warnings, exports, files, failedJob,
                 endVars, serveVars>>

\* .catch(err => { console.error(...); ... })
Catch ==
  /\ pc = "catch"
  /\ stderr' = Append(stderr, IF tool = "make_poster"
                              THEN "Poster generation failed" ELSE "err")
  /\ pc' = "exit"
  /\ UNCHANGED <<progVars, pending, jobVars, exitCode, crashed, serveVars>>

\* process.exit(1)
ProcessExit ==
  /\ pc = "exit"
  /\ exitCode' = 1
  /\ pc' = "exited"
  /\ UNCHANGED <<progVars, pending, jobVars, stderr, crashed, serveVars>>

\* the async function returned and nothing keeps the event loop alive
Returns ==
  /\ pc = "returned"
  /\ exitCode' = 0
  /\ pc' = "exited"
  /\ UNCHANGED <<progVars, pending, jobVars, stderr, crashed, serveVars>>

-----------------------------------------------------------------------------
(* The specification of a process *)

ProgramNext ==
  \/ Start
  \/ GetFreePort
  \/ ServerListen
  \/ Launch
  \/ NewPage
  \/ SetViewport
  \/ Goto
  \/ AddStyleTag
  \/ Evaluate
  \/ WaitStart
  \/ Tick
  \/ WaitMatches
  \/ WaitTimesOut
  \/ Pdf
  \/ PageClose
  \/ BrowserCloseBegin
  \/ BrowserCloseSettles
  \/ Catch
  \/ ProcessExit
  \/ Returns

EnvNext ==
  \/ \E p \in Ports : OtherBinds(p)
  \/ \E txt \in StatusTexts : StatusChanges(txt)
  \/ WaitRejects

Next == ProgramNext \/ EnvNext

Spec == Init /\ [][Next]_vars

\* the event loop runs every continuation that is ready, and timers fire;
\* nothing obliges the page to finish rendering or other programs to act
FairSpec == Spec /\ WF_vars(ProgramNext)

-----------------------------------------------------------------------------
(* make_poster.js: the static file server *)

\* A reqUrl.pathname is a sequence of tokens: "/", file and directory names,
\* and the characters of percent escapes.
PathTokens == {"/", "p", "q", "s.js", "index.html", "%", "2", "F"}
HexDigits  == {"2", "F"}

Pathnames ==
  { u \in UNION { [1..n -> PathTokens] : n \in 1..MaxPathLen } : u[1] = "/" }

\* the served tree: rootDir holds the directories p and q; q is empty
Dirs           == { <<>>, <<"p">>, <<"q">> }
FileCandidates == { <<"index.html">>, <<"s.js">>,
                    <<"p", "index.html">>, <<"p", "s.js">> }

URIError == <<"URIError">>

\* the character a %XY escape stands for; %F2 and %FF are no UTF-8 text
Unescape(h1, h2) ==
  IF h1 = "2" THEN (IF h2 = "F" THEN <<"/">> ELSE <<"\"">>) ELSE URIError

\* decodeURIComponent(s): throws on a "%" that starts no valid escape
RECURSIVE decodeURIComponent(_)
decodeURIComponent(s) ==
  IF s = <<>> THEN <<>>
  ELSE IF s[1] # "%"
       THEN LET rest == decodeURIComponent(Tail(s)) IN
            IF rest = URIError THEN URIError ELSE <<s[1]>> \o rest
       ELSE IF Len(s) >= 3 /\ s[2] \in HexDigits /\ s[3] \in HexDigits
            THEN LET c    == Unescape(s[2], s[3])
                     rest == decodeURIComponent(SubSeq(s, 4, Len(s))) IN
                 IF c = URIError \/ rest = URIError THEN URIError
                 ELSE c \o rest
            ELSE URIError

endsWith(s, t) == Len(s) > 0 /\ s[Len(s)] = t

\* if (pathname.endsWith("/")) pathname += "index.html"
WithIndexMutant(pathname) == pathname
WithIndex(pathname) ==
  IF endsWith(pathname, "/") THEN Append(pathname, "index.html") ELSE pathname

\* path.join(rootDir, pathname), as the names below rootDir: empty segments
\* drop out, the tokens between two slashes make one name
RECURSIVE Segments(_, _)
Segments(s, cur) ==
  IF s = <<>> THEN (IF cur = "" THEN <<>> ELSE <<cur>>)
  ELSE IF s[1] = "/"
       THEN (IF cur = "" THEN <<>> ELSE <<cur>>) \o Segments(Tail(s), "")
       ELSE Segments(Tail(s), cur \o s[1])

FullPath(pathname) == Segments(pathname, "")

\* fs.stat(fullPath): err is set unless the path exists; a path with a
\* trailing slash exists only as a directory
Stat(pathname) ==
  LET segs == FullPath(pathname) IN
  IF segs \in Dirs THEN "dir"
  ELSE IF segs \in fs /\ ~endsWith(pathname, "/") THEN "file"
  ELSE "err"

\* path.extname of a file of the tree
extname(segs) ==
  IF segs[Len(segs)] = "index.html" THEN ".html"
  ELSE IF segs[Len(segs)] = "s.js" THEN ".js"
  ELSE ""

ContentType(ext) ==
  IF ext = ".html" THEN "text/html; charset=utf-8"
  ELSE IF ext = ".js" THEN "text/javascript; charset=utf-8"
  ELSE IF ext = ".css" THEN "text/css; charset=utf-8"
  ELSE IF ext = ".json" THEN "application/json; charset=utf-8"
  ELSE IF ext = ".geojson" THEN "application/geo+json; charset=utf-8"
  ELSE "application/octet-stream"

NoResp == [status |-> 0, type |-> NULL, text |-> NULL, file |-> <<>>]

\* serveFile up to the fs.stat call; an exception thrown here is uncaught
Request(u) ==
  /\ stage = "idle"
  /\ reqPath' = u
  /\ stage' = IF decodeURIComponent(u) = URIError THEN "threw" ELSE "stat"
  /\ UNCHANGED <<fs, resp, toolVars>>

\* the callback of fs.stat
StatCallback ==
  /\ stage = "stat"
  /\ LET pathname == WithIndex(decodeURIComponent(reqPath)) IN
     IF Stat(pathname) # "file"
     THEN resp' = [status |-> 404, type |-> NULL, text |-> "Not found",
                   file |-> <<>>]
     ELSE resp' = [status |-> 200,
                   type |-> ContentType(extname(FullPath(pathname))),
                   text |-> NULL, file |-> FullPath(pathname)]
  /\ stage' = "answered"
  /\ UNCHANGED <<fs, reqPath, toolVars>>

\* the response is sent; the server takes the next request
RequestDone ==
  /\ stage = "answered"
  /\ stage' = "idle"
  /\ reqPath' = <<>>
  /\ resp' = NoResp
  /\ UNCHANGED <<fs, toolVars>>

\* a make_poster.js process whose static server listens
InitServe ==
  /\ tool = "make_poster"
  /\ args = NoArgs
  /\ pc = "launch"
  /\ probe = ProbeBase
  /\ port = ProbeBase
  /\ others = {}
  /\ server = "listening"
  /\ serverCloses = 0
  /\ browser = "none"
  /\ browserCloses = 0
  /\ openPages = 0
  /\ pagesOpened = 0
  /\ jobIdx = 0
  /\ jobLog = <<>>
  /\ statusText = NULL
  /\ elapsed = 0
  /\ warnings = 0
  /\ exports = <<>>
  /\ files = {}
  /\ pending = FALSE
  /\ failedJob = 0
  /\ stderr = <<>>
  /\ exitCode = -1
  /\ crashed = FALSE
  /\ fs \in SUBSET FileCandidates
  /\ reqPath = <<>>
  /\ stage = "idle"
  /\ resp = NoResp

NextServe ==
  \/ \E u \in Pathnames : Request(u)
  \/ StatCallback
  \/ RequestDone

SpecServe == InitServe /\ [][NextServe]_vars

-----------------------------------------------------------------------------
(* Properties *)

Closing == browser \in {"closing", "closed", "closeFailed"}

Pos(log, x) == IF \E i \in 1..Len(log) : log[i] = x
               THEN CHOOSE i \in 1..Len(log) : log[i] = x ELSE 0

\* x was invoked earlier in the job than y, whenever y was invoked
Before(x, y) ==
  Pos(jobLog, y) > 0 => (0 < Pos(jobLog, x) /\ Pos(jobLog, x) < Pos(jobLog, y))

\* y was never invoked before x
NotAfter(x, y) ==
  (Pos(jobLog, x) > 0 /\ Pos(jobLog, y) > 0) => Pos(jobLog, x) < Pos(jobLog, y)

\* C1: when the process has ended, every shared resource it acquired (the
\* listening server, the browser) has been released exactly once.
ReleasedExactlyOnce ==
  pc = "exited" =>
    /\ server # "none" => serverCloses = 1
    /\ browser # "none" => browserCloses = 1

\* C2 as claimed: in either tool a pending completion wait always ends.
EveryWaitEnds == (pc = "waiting") ~> (pc # "waiting")

\* C2 amended: in scripts/render_poster.js a pending wait always ends and the
\* job goes on to the style injection; when it ends without the status
\* matching, one warning is logged and no error propagates.  In
\* make_poster.js the wait ends only by a match or by a rejection that fails
\* the job.
RenderWaitEnds ==
  /\ (tool = "render_poster" /\ pc = "waiting") ~> (pc = "addStyleTag")
  /\ [][(tool = "render_poster" /\ pc = "waiting" /\ pc' # "waiting") =>
          /\ pc' = "addStyleTag"
          /\ ~pending'
          /\ ~RenderDone(statusText) => warnings' = warnings + 1]_vars
  /\ [][(tool = "make_poster" /\ pc = "waiting" /\ pc' # "waiting") =>
          (MakeDone(statusText) \/ (pending' /\ pc' = "pageClose"))]_vars

\* a render_poster.js job whose status never matched, whose wait timed out
\* and whose PDF was then exported
RenderTimedOutAndExported ==
  /\ tool = "render_poster"
  /\ warnings = 1
  /\ elapsed >= 180000
  /\ ~RenderDone(statusText)
  /\ exports = << [scheme |-> NULL, path |-> "poster_a3.pdf"] >>

ExpectedExports ==
  << [scheme |-> "mta",    path |-> "poster_a3_mta.pdf"],
     [scheme |-> "ocean",  path |-> "poster_a3_ocean.pdf"],
     [scheme |-> "sunset", path |-> "poster_a3_sunset.pdf"],
     [scheme |-> "earth",  path |-> "poster_a3_earth.pdf"] >>

ExpectedPaths(n) == { ExpectedExports[i].path : i \in 1..n }

\* C3: with scheme = "all" the exports made so far are the first entries of
\* (mta, ocean, sunset, earth) with the paths poster_a3_<scheme>.pdf,
\* whatever --out is; once every job has succeeded there are exactly 4 of
\* them, written to 4 distinct paths.
AllSchemesExports ==
  (tool = "make_poster" /\ scheme = "all") =>
    /\ Len(exports) <= 4
    /\ \A i \in 1..Len(exports) : exports[i] = ExpectedExports[i]
    /\ (Closing /\ failedJob = 0) =>
         /\ exports = ExpectedExports
         /\ files = ExpectedPaths(4)
         /\ Cardinality(files) = 4

AllSchemesDone ==
  /\ tool = "make_poster"
  /\ scheme = "all"
  /\ outFile = "custom.pdf"
  /\ exitCode = 0
  /\ Len(exports) = 4

\* C4: without --port the server start-up never fails on a port in use.
PortNeverInUse ==
  (tool = "make_poster" /\ forcedPort = NULL) => ~crashed

ResolvesToFile(u) ==
  /\ decodeURIComponent(u) # URIError
  /\ Stat(WithIndex(decodeURIComponent(u))) = "file"

\* C5: the handler never throws, and a request whose path resolves to no
\* regular file is answered 404 "Not found".
NotFoundNeverThrows ==
  /\ stage # "threw"
  /\ (stage = "answered" /\ ~ResolvesToFile(reqPath)) =>
       (resp.status = 404 /\ resp.text = "Not found")

NamesDirWithIndex(u) ==
  /\ decodeURIComponent(u) # URIError
  /\ FullPath(decodeURIComponent(u)) \in Dirs
  /\ Append(FullPath(decodeURIComponent(u)), "index.html") \in fs

IndexServed(u) ==
  /\ resp.status = 200
  /\ resp.type = "text/html; charset=utf-8"
  /\ resp.file = Append(FullPath(decodeURIComponent(u)), "index.html")

\* C6 as claimed: a path that names a directory holding index.html is
\* answered with that index.html, with or without a trailing slash.
DirectoryIndexAlways ==
  (stage = "answered" /\ NamesDirWithIndex(reqPath)) => IndexServed(reqPath)

\* C6 amended: a path that names a directory holding index.html is answered
\* 200 with that index.html as text/html when the decoded path ends with a
\* slash, and 404 "Not found" when it does not.
DirectoryIndexOnSlash ==
  (stage = "answered" /\ NamesDirWithIndex(reqPath)) =>
    IF endsWith(decodeURIComponent(reqPath), "/")
    THEN IndexServed(reqPath)
    ELSE resp.status = 404 /\ resp.text = "Not found"

SlashDirAnswered ==
  /\ stage = "answered"
  /\ reqPath = <<"/", "p", "/">>
  /\ <<"p", "index.html">> \in fs
  /\ resp.status = 200

\* C7 as claimed: in a job of either tool the style sheet is injected before
\* the wait begins, the export follows the end of the wait, and the page is
\* closed after the export.
StepOrderBothTools ==
  /\ Before("newPage", "goto")
  /\ Before("goto", "addStyleTag")
  /\ Before("addStyleTag", "waitForFunction")
  /\ Before("waitEnded", "pdf")
  /\ NotAfter("pdf", "pageClose")

\* C7 amended: in make_poster.js the order is page open, navigation, style
\* injection, wait, export, page close.  In scripts/render_poster.js the
\* style sheet is injected after the wait has ended and before the export,
\* and the page is not closed on its own: the browser is closed after the
\* export.  In both the export follows the end of the wait.
StepOrderPerTool ==
  /\ Before("newPage", "goto")
  /\ Before("waitForFunction", "waitEnded")
  /\ Before("waitEnded", "pdf")
  /\ Before("addStyleTag", "pdf")
  /\ tool = "make_poster" =>
       /\ Before("goto", "addStyleTag")
       /\ Before("addStyleTag", "waitForFunction")
       /\ NotAfter("pdf", "pageClose")
       /\ (pc = "pageClose" /\ ~pending) => Pos(jobLog, "pdf") > 0
  /\ tool = "render_poster" =>
       /\ Before("goto", "waitForFunction")
       /\ Before("waitEnded", "addStyleTag")
       /\ Pos(jobLog, "pageClose") = 0
       /\ Closing => Pos(jobLog, "pdf") > 0

MakeJobComplete ==
  /\ tool = "make_poster"
  /\ jobLog = <<"newPage", "setViewport", "goto", "addStyleTag", "evaluate",
                "waitForFunction", "waitEnded", "pdf", "pageClose">>

\* C8 as claimed: in make_poster.js at most one page is open, and the
\* page of every job is closed before the next job's page is opened and
\* before the browser close begins.
JobsNeverOverlapClosed ==
  tool = "make_poster" =>
    /\ openPages <= 1
    /\ pc = "newPage" => openPages = 0
    /\ Closing => openPages = 0

\* C8 amended: in make_poster.js at most one page is open; when the next
\* job's page is about to be opened the previous page is closed; and when the
\* browser close has begun, page.close() of every opened page has settled and
\* the page is closed unless that close itself rejected.
JobsNeverOverlap ==
  tool = "make_poster" =>
    /\ openPages <= 1
    /\ pc = "newPage" => openPages = 0
    /\ (Closing /\ pagesOpened > 0) =>
         /\ jobLog[Len(jobLog)] \in {"pageClose", "pageCloseRejected"}
         /\ jobLog[Len(jobLog)] = "pageClose" => openPages = 0

SecondJobFailedAndClosed ==
  /\ tool = "make_poster"
  /\ browser = "closing"
  /\ failedJob = 2
  /\ pagesOpened = 2
  /\ Pos(jobLog, "pdf") > 0
  /\ openPages = 0

\* C9: in make_poster.js the server listens while the browser is launched
\* and in use, a page is opened only in a launched browser, no page is opened
\* once the browser close has begun, and server.close() is called only when
\* the browser close has completed.
ResourceOrder ==
  /\ [](tool = "make_poster" =>
          /\ browser \in {"launched", "closing"} => server = "listening"
          /\ pagesOpened > 0 => browser # "none"
          /\ openPages > 0 => browser \in {"launched", "closing", "closeFailed"}
          /\ serverCloses > 0 => (browser = "closed" /\ serverCloses = 1))
  /\ [][(tool = "make_poster" /\ pagesOpened' # pagesOpened) =>
          (browser = "launched" /\ browser' = "launched")]_vars
  /\ [][(tool = "make_poster" /\ serverCloses' # serverCloses) =>
          (browser = "closing" /\ browser' = "closed")]_vars

TornDownAfterFailure ==
  /\ tool = "make_poster"
  /\ failedJob = 3
  /\ browser = "closed"
  /\ server = "closed"
  /\ serverCloses = 1

\* C10: with scheme = "all", once job k has failed no later job is started,
\* no later job's page is opened or file written, the files of the jobs
\* before k stay, and the process ends with code 1 after the one error line.
BatchAborts ==
  (tool = "make_poster" /\ scheme = "all" /\ failedJob # 0) =>
    /\ jobIdx = failedJob
    /\ pending
    /\ pagesOpened <= failedJob
    /\ pc \in {"pageClose", "browserClose", "browserClosing", "catch", "exit",
              "exited"}
    /\ ExpectedPaths(failedJob - 1) \subseteq files
    /\ files \subseteq ExpectedPaths(failedJob)
    /\ exitCode # 0
    /\ pc \in {"exit", "exited"} => stderr = <<"Poster generation failed">>
    /\ pc = "exited" => exitCode = 1

SecondJobFailedExit ==
  /\ tool = "make_poster"
  /\ scheme = "all"
  /\ failedJob = 2
  /\ pc = "exited"
  /\ exitCode = 1
  /\ files = {"poster_a3_mta.pdf"}

=============================================================================
